---------------------------- MODULE Spec2Model ----------------------------
(***************************************************************************)
(* A model of backend/vector_database.py: the FAISS-backed index           *)
(* (FAISSVectorDB) with its manual id <-> position bookkeeping and its two *)
(* persisted files, and the ChromaDB adapter (ChromaVectorDB).              *)
(*                                                                         *)
(* Python dictionaries whose iteration order the code observes             *)
(* (document_store, read in order by _rebuild_index) are sequences of      *)
(* entries in insertion order; the two mappings are functions.  An         *)
(* embedding is a vector of integers; L2-normalised vectors are in fixed   *)
(* point (FixedOne stands for 1.0).                                        *)
(***************************************************************************)
EXTENDS Integers, Sequences, FiniteSets, TLC

VARIABLES
    index,            \* self.index: the raw vectors, position p at index[p + 1]
    index_d,          \* self.index.d: the length of the vectors the index takes
    document_store,   \* self.document_store, in insertion order
    id_to_index,      \* self.id_to_index
    index_to_id,      \* self.index_to_id, keyed by str(position)
    index_file,       \* <db_path>/faiss/vector.index
    metadata_file,    \* <db_path>/faiss/metadata.json
    config,           \* self.config (index_type)
    up,               \* a FAISSVectorDB instance exists (the process is alive)
    last,             \* the last call: its name, arguments and return value
    all_ok,           \* every call so far returned success
    faults,           \* faults injected so far
    collection,       \* ChromaVectorDB: the external engine's collection
    threads,          \* concurrent callers: each one's call and position in it
    snapshot,         \* the state the concurrent calls started from
    found,            \* the last search: its arguments and what it returned
    manager           \* VectorDatabaseManager and the module's *_AVAILABLE flags

vars == <<index, index_d, document_store, id_to_index, index_to_id, index_file,
          metadata_file, config, up, last, all_ok, faults, collection,
          threads, snapshot, found, manager>>

-----------------------------------------------------------------------------
(* Bounds and input sets *)

MaxVectors == 2     \* add_documents is called while the raw index can take the batch
MaxFaults == 1      \* exceptions, crashes and malformed batches in one behaviour
MaxTopK == 2        \* top_k of a search

Ids == {"a", "b"}
NoId == "<missing>"                 \* a document dictionary without an "id" key
Contents == {"x", "y"}
Metadatas == {[tag |-> "t1"], [tag |-> "t2"]}
Filters == {<<>>} \cup {[tag |-> "t1"]}      \* <<>> is filter_dict = None
IndexTypes == {"IndexFlatIP", "IndexFlatL2", "IndexHNSWFlat"}

Doc(i, c) ==
    [id |-> i, content |-> c,
     metadata |-> [tag |-> IF c = "x" THEN "t1" ELSE "t2"]]

(* the documents callers add: "a" with either content, "b", and one
   dictionary that lacks the "id" key *)
Documents == {Doc("a", "x"), Doc("a", "y"), Doc("b", "y"), Doc(NoId, "x")}

Batches == UNION {[1..n -> Documents] : n \in 1..MaxVectors}

(* What can go wrong during one call: at most one fault per call. *)
Faults == {"none",
           "encode_raises",            \* embedding_model.encode raises
           "index_add_raises",         \* index.add raises (e.g. wrong dimension)
           "write_index_raises",       \* faiss.write_index cannot open the file
           "open_metadata_raises",     \* open(metadata_path, 'w') raises
           "json_dump_raises",         \* json.dump raises after the file was truncated
           "crash_in_write_index",     \* the process dies inside faiss.write_index
           "crash_before_metadata",    \* ... between the two writes
           "crash_in_json_dump"}       \* ... inside json.dump

Crashes == {"crash_in_write_index", "crash_before_metadata", "crash_in_json_dump"}

-----------------------------------------------------------------------------
(* Python dict helpers *)

EmptyDict == [k \in {} |-> 0]

DictPut(d, k, v) == [x \in DOMAIN d \cup {k} |-> IF x = k THEN v ELSE d[x]]

DictDel(d, k) == [x \in DOMAIN d \ {k} |-> d[x]]

(* document_store: a sequence of [id, content, metadata, faiss_index] *)
StoreKeys(store) == {store[i].id : i \in 1..Len(store)}

StoreGet(store, k) == store[CHOOSE i \in 1..Len(store) : store[i].id = k]

StorePut(store, e) ==
    IF e.id \in StoreKeys(store)
    THEN [i \in 1..Len(store) |-> IF store[i].id = e.id THEN e ELSE store[i]]
    ELSE Append(store, e)

StoreDel(store, k) == SelectSeq(store, LAMBDA e : e.id # k)

(* str(faiss_index) *)
Str(n) == ToString(n)

-----------------------------------------------------------------------------
(* Embeddings *)

FixedOne == 6

(* the embedding models a configuration can name, and the length of the
   vectors each one produces *)
EmbeddingModels == {"all-MiniLM-L6-v2", "all-mpnet-base-v2"}

ModelDimension(embedding_model) ==
    IF embedding_model = "all-MiniLM-L6-v2" THEN 2 ELSE 3

(* VectorDBConfig with its defaults: the dimension is the one the default
   embedding model produces *)
DefaultConfig ==
    [db_type |-> "chroma", index_type |-> "IndexFlatIP",
     embedding_model |-> "all-MiniLM-L6-v2",
     dimension |-> ModelDimension("all-MiniLM-L6-v2")]

(* SentenceTransformer.encode(text): a deterministic function of the text, of
   the length the model produces *)
Encode(cfg, text) ==
    LET v == CASE text = "x" -> <<2, 0>>
               [] text = "y" -> <<0, 3>>
               [] text = "w" -> <<3, 4>>
               [] OTHER -> <<3, 0>>
    IN  [i \in 1..ModelDimension(cfg.embedding_model) |->
            IF i <= Len(v) THEN v[i] ELSE 0]

RECURSIVE SumFrom(_, _)
SumFrom(v, i) == IF i > Len(v) THEN 0 ELSE v[i] + SumFrom(v, i + 1)

Dot(v, w) == SumFrom([i \in 1..Len(v) |-> v[i] * w[i]], 1)

(* the element of a one-element set: {F(v) : v \in {e}} evaluates e once for
   all its uses in F *)
TheOne(S) == CHOOSE v \in S : TRUE

Norm(v) == TheOne({CHOOSE n \in 0..10 : n * n = dd : dd \in {Dot(v, v)}})

(* faiss.normalize_L2 *)
NormalizeL2(v) ==
    TheOne({IF n = 0 THEN v
            ELSE [i \in 1..Len(v) |-> (v[i] * FixedOne) \div n] :
            n \in {Norm(v)}})

(* the vector add_documents and search hand to the raw index *)
Embedding(cfg, text) ==
    IF cfg.index_type = "IndexFlatIP"
    THEN NormalizeL2(Encode(cfg, text))
    ELSE Encode(cfg, text)

-----------------------------------------------------------------------------
(* The two persisted files.  A file is absent, corrupt (truncated or
   partially written) or holds what the last complete write put there. *)

EmptyMetadata ==
    [documents |-> <<>>, id_to_index |-> EmptyDict, index_to_id |-> EmptyDict]

AbsentIndexFile == [kind |-> "absent", data |-> <<>>, d |-> 0]
CorruptIndexFile == [kind |-> "corrupt", data |-> <<>>, d |-> 0]
AbsentMetadataFile == [kind |-> "absent", data |-> EmptyMetadata]
CorruptMetadataFile == [kind |-> "corrupt", data |-> EmptyMetadata]

(* json.dump(metadata, f): every key of the three dictionaries is already a
   string (ids, and str(faiss_index) for index_to_id) and every position an
   int, so the encoding keeps keys, values and the order of the entries. *)
JsonDump(s) ==
    [kind |-> "ok",
     data |-> [documents |-> s.document_store,
               id_to_index |-> s.id_to_index,
               index_to_id |-> s.index_to_id]]

(* faiss.write_index(self.index, path): the file holds the vectors and the
   length the index takes *)
WriteIndex(s) == [kind |-> "ok", data |-> s.index, d |-> s.d]

-----------------------------------------------------------------------------
(* FAISSVectorDB.  An instance is the record
   [config, index, d, document_store, id_to_index, index_to_id, index_file,
    metadata_file];
   the two files are in it because every mutating method writes them. *)

(* _create_index: a fresh index of the configured family holds no vector and
   takes vectors of the configured dimension *)
CreateIndex(s) == [s EXCEPT !.index = <<>>, !.d = s.config.dimension]

(* _save_index: the index file first, then the metadata file opened with 'w'
   (truncated in place); every exception is logged and swallowed.  Returns
   the instance with its files as the fault leaves them. *)
SaveIndex(s, fault) ==
    CASE fault = "write_index_raises" -> s
      [] fault = "crash_in_write_index" ->
            [s EXCEPT !.index_file = CorruptIndexFile]
      [] fault \in {"open_metadata_raises", "crash_before_metadata"} ->
            [s EXCEPT !.index_file = WriteIndex(s)]
      [] fault \in {"json_dump_raises", "crash_in_json_dump"} ->
            [s EXCEPT !.index_file = WriteIndex(s),
                      !.metadata_file = CorruptMetadataFile]
      [] OTHER ->
            [s EXCEPT !.index_file = WriteIndex(s),
                      !.metadata_file = JsonDump(s)]

(* add_documents, lines 308-312: self.index.add(embeddings) *)
IndexAdd(s, cfg, docs) ==
    [s EXCEPT !.index =
        s.index \o [i \in 1..Len(docs) |-> Embedding(cfg, docs[i].content)]]

(* index.add and index.search: the faiss wrapper asserts that the vectors
   it is handed have the length the index takes and raises before it touches
   the index *)
IndexRejects(s, cfg) == ModelDimension(cfg.embedding_model) # s.d

(* add_documents, lines 316-326: one iteration of the metadata loop *)
StoreMetadata(s, doc, faiss_index) ==
    [s EXCEPT
        !.document_store =
            StorePut(s.document_store,
                     [id |-> doc.id, content |-> doc.content,
                      metadata |-> doc.metadata, faiss_index |-> faiss_index]),
        !.id_to_index = DictPut(s.id_to_index, doc.id, faiss_index),
        !.index_to_id = DictPut(s.index_to_id, Str(faiss_index), doc.id)]

(* add_documents, lines 315-326: the loop from document i on; doc["id"] raises
   KeyError at the first document without an id and the loop stops there. *)
RECURSIVE MetadataLoop(_, _, _, _)
MetadataLoop(s, docs, i, start_index) ==
    IF i > Len(docs) THEN [self |-> s, raised |-> FALSE]
    ELSE IF docs[i].id = NoId THEN [self |-> s, raised |-> TRUE]
    ELSE MetadataLoop(StoreMetadata(s, docs[i], start_index + (i - 1)),
                      docs, i + 1, start_index)

(* The result of a call: the instance after it, the value returned, whether
   the process died in it, and whether the call reached the point where the
   fault strikes (a fault that is not reached does not happen). *)
Result(s, ret, crashed, hit) ==
    [self |-> s, ret |-> ret, crashed |-> crashed, hit |-> hit]

SaveFaults == Crashes \cup
    {"write_index_raises", "open_metadata_raises", "json_dump_raises"}

(* add_documents *)
AddDocuments(s, cfg, docs, fault) ==
    IF fault \in {"encode_raises", "index_add_raises"}
    THEN Result(s, FALSE, FALSE, TRUE)
    ELSE IF IndexRejects(s, cfg)
    THEN Result(s, FALSE, FALSE, fault = "none")
    ELSE LET start_index == Len(s.index)
             looped == MetadataLoop(IndexAdd(s, cfg, docs), docs, 1, start_index)
         IN  IF looped.raised
             THEN Result(looped.self, FALSE, FALSE, fault = "none")
             ELSE Result(SaveIndex(looped.self, fault), TRUE,
                         fault \in Crashes, TRUE)

(* _rebuild_index, lines 408-414: the documents to re-add, in the order of
   document_store *)
StoredDocuments(s) ==
    [i \in 1..Len(s.document_store) |->
        [id |-> s.document_store[i].id,
         content |-> s.document_store[i].content,
         metadata |-> s.document_store[i].metadata]]

(* _rebuild_index, lines 417-418 *)
ClearMappings(s) ==
    [s EXCEPT !.id_to_index = EmptyDict, !.index_to_id = EmptyDict]

(* _rebuild_index.  The documents are re-added in the order of
   document_store; the value the inner add_documents returns is not looked
   at (ret is that value, for the record). *)
RebuildIndex(s, cfg, fault) ==
    IF s.document_store = <<>>
    THEN Result(SaveIndex(CreateIndex(s), fault), TRUE, fault \in Crashes,
                fault \in SaveFaults \cup {"none"})
    ELSE AddDocuments(ClearMappings(CreateIndex(s)), cfg,
                      StoredDocuments(s), fault)

(* delete_document, lines 384-388: the three del statements run in order; a
   KeyError of the second or third leaves the earlier ones done, and the
   except branch returns False. *)
RemoveEntries(s, document_id) ==
    LET faiss_index == StoreGet(s.document_store, document_id).faiss_index
        s1 == [s EXCEPT !.document_store = StoreDel(@, document_id)]
        s2 == [s1 EXCEPT !.id_to_index = DictDel(@, document_id)]
        s3 == [s2 EXCEPT !.index_to_id = DictDel(@, Str(faiss_index))]
    IN  IF document_id \notin DOMAIN s.id_to_index
        THEN [self |-> s1, raised |-> TRUE]
        ELSE IF Str(faiss_index) \notin DOMAIN s.index_to_id
        THEN [self |-> s2, raised |-> TRUE]
        ELSE [self |-> s3, raised |-> FALSE]

(* delete_document, lines 384-395: the id is stored *)
DeleteStored(s, cfg, document_id, fault) ==
    LET removed == RemoveEntries(s, document_id)
        rebuilt == RebuildIndex(removed.self, cfg, fault)
    IN  IF removed.raised
        THEN Result(removed.self, FALSE, FALSE, fault = "none")
        ELSE Result(rebuilt.self, TRUE, rebuilt.crashed, rebuilt.hit)

(* delete_document without the early return of lines 381-382: an unknown id
   goes on to the rebuild and the call returns True *)
DeleteDocumentNoEarlyReturn(s, cfg, document_id, fault) ==
    IF document_id \notin StoreKeys(s.document_store)
    THEN LET rebuilt == RebuildIndex(s, cfg, fault)
         IN  Result(rebuilt.self, TRUE, rebuilt.crashed, rebuilt.hit)
    ELSE DeleteStored(s, cfg, document_id, fault)

(* delete_document *)
DeleteDocument(s, cfg, document_id, fault) ==
    IF document_id \notin StoreKeys(s.document_store)
    THEN Result(s, FALSE, FALSE, fault = "none")
    ELSE DeleteStored(s, cfg, document_id, fault)

(* clear_collection without lines 439-440 *)
ClearMemoryKeepsMappings(s) ==
    [CreateIndex(s) EXCEPT !.document_store = <<>>]

(* clear_collection, lines 437-440 *)
ClearMemory(s) ==
    [CreateIndex(s) EXCEPT !.document_store = <<>>,
                           !.id_to_index = EmptyDict,
                           !.index_to_id = EmptyDict]

(* clear_collection *)
ClearCollection(s, fault) ==
    Result(SaveIndex(ClearMemory(s), fault), TRUE, fault \in Crashes,
           fault \in SaveFaults \cup {"none"})

(* get_collection_stats()["total_documents"] *)
TotalDocuments(s) == Len(s.document_store)

(* _load_index: faiss.read_index raises on a corrupt file and json.load on a
   corrupt metadata file; either way the except branch creates a fresh index
   and the three dictionaries keep the empty values __init__ gave them. *)
LoadIndex(s) ==
    IF s.index_file.kind = "corrupt" THEN CreateIndex(s)
    ELSE LET read == [s EXCEPT !.index = s.index_file.data,
                               !.d = s.index_file.d]
         IN  CASE s.metadata_file.kind = "absent" -> read
               [] s.metadata_file.kind = "corrupt" -> CreateIndex(read)
               [] OTHER ->
                    [read EXCEPT
                        !.document_store = s.metadata_file.data.documents,
                        !.id_to_index = s.metadata_file.data.id_to_index,
                        !.index_to_id = s.metadata_file.data.index_to_id]

(* __init__ and _initialize_db on the files found at db_path *)
InitializeDb(files) ==
    LET fresh == [config |-> files.config, index |-> <<>>, d |-> 0,
                  document_store |-> <<>>,
                  id_to_index |-> EmptyDict, index_to_id |-> EmptyDict,
                  index_file |-> files.index_file,
                  metadata_file |-> files.metadata_file]
    IN  IF files.index_file.kind # "absent"
        THEN LoadIndex(fresh)
        ELSE CreateIndex(fresh)

-----------------------------------------------------------------------------
(* search *)

SquaredDistance(v, w) ==
    SumFrom([i \in 1..Len(v) |-> (v[i] - w[i]) * (v[i] - w[i])], 1)

(* what the raw index reports for a stored vector: the inner product for
   IndexFlatIP, the squared L2 distance for IndexFlatL2 and IndexHNSWFlat *)
RawScore(cfg, v, q) ==
    IF cfg.index_type = "IndexFlatIP" THEN Dot(v, q) ELSE SquaredDistance(v, q)

(* position p is reported before position r: larger inner product first,
   smaller distance first; equal values in order of position *)
ReportedBefore(cfg, scores, p, r) ==
    \/ IF cfg.index_type = "IndexFlatIP" THEN scores[p] > scores[r]
       ELSE scores[p] < scores[r]
    \/ scores[p] = scores[r] /\ p < r

(* the first top_k positions in the order the raw index reports them, from
   the value it computes for every stored vector *)
RankedHits(cfg, scores, top_k) ==
    LET n == IF top_k < Len(scores) THEN top_k ELSE Len(scores)
        rank(p) == Cardinality({r \in 1..Len(scores) :
                                   ReportedBefore(cfg, scores, r, p)})
    IN  [k \in 1..n |->
           TheOne({[score |-> scores[p], idx |-> p - 1] :
                   p \in {r \in 1..Len(scores) : rank(r) = k - 1}})]

(* self.index.search(query_embedding, top_k) up to the first -1:
   a sequence of [score, idx], idx the 0-based position *)
IndexSearch(idx, cfg, q, top_k) ==
    TheOne({RankedHits(cfg, scores, top_k) :
            scores \in {[p \in 1..Len(idx) |-> RawScore(cfg, idx[p], qv)] :
                        qv \in {q}}})

(* metadata.get(k): None for a key the metadata lacks *)
MetadataGet(metadata, k) ==
    IF k \in DOMAIN metadata THEN metadata[k] ELSE "None"

MatchesFilterKeyOnly(metadata, filter_dict) ==
    \A k \in DOMAIN filter_dict : k \in DOMAIN metadata

(* all(metadata.get(k) == v for k, v in filter_dict.items()) *)
MatchesFilter(metadata, filter_dict) ==
    \A k \in DOMAIN filter_dict : MetadataGet(metadata, k) = filter_dict[k]

(* search, lines 348-371: the loop over what the raw index reported *)
SearchResults(s, hits, filter_dict) ==
    LET known(h) == /\ Str(h.idx) \in DOMAIN s.index_to_id
                    /\ s.index_to_id[Str(h.idx)] \in StoreKeys(s.document_store)
        doc(h) == StoreGet(s.document_store, s.index_to_id[Str(h.idx)])
        result(h) == TheOne({[id |-> d.id, content |-> d.content,
                              metadata |-> d.metadata, score |-> h.score] :
                             d \in {doc(h)}})
    IN  TheOne({[i \in 1..Len(kept) |-> result(kept[i])] :
                kept \in {SelectSeq(reported, LAMBDA h :
                              known(h)
                              /\ MatchesFilter(doc(h).metadata, filter_dict)) :
                          reported \in {hits}}})

(* search: the sequence of [id, content, metadata, score]; [] on an exception *)
Search(s, cfg, query, top_k, filter_dict, fault) ==
    IF fault = "encode_raises" \/ top_k < 1 \/ IndexRejects(s, cfg) THEN <<>>
    ELSE SearchResults(
            s, IndexSearch(s.index, cfg, Embedding(cfg, query), top_k),
            filter_dict)

(* a search that, when it fails, falls back to a fresh index as _load_index
   does *)
SearchedResets(s, fault) ==
    IF fault = "encode_raises" THEN CreateIndex(s) ELSE s

(* the instance when search returns, lines 336-376: no statement assigns a
   field of self or writes a file, in the try block or in the except branch;
   faiss.normalize_L2 works in place on the query's own array *)
Searched(s, fault) == s

(* get_collection_stats, lines 424-432: builds a dictionary from
   len(self.document_store) and the configuration; ret is whether the
   dictionary returned is the statistics *)
GetCollectionStats(s) == Result(s, TRUE, FALSE, TRUE)

-----------------------------------------------------------------------------
(* The instance as the variables hold it *)

Self ==
    [config |-> config, index |-> index, d |-> index_d,
     document_store |-> document_store,
     id_to_index |-> id_to_index, index_to_id |-> index_to_id,
     index_file |-> index_file, metadata_file |-> metadata_file]

Memory == <<index, index_d, document_store, id_to_index, index_to_id>>

Files == <<index_file, metadata_file>>

Install(s) ==
    /\ index' = s.index
    /\ index_d' = s.d
    /\ document_store' = s.document_store
    /\ id_to_index' = s.id_to_index
    /\ index_to_id' = s.index_to_id
    /\ index_file' = s.index_file
    /\ metadata_file' = s.metadata_file

(* the process died inside a call: the files stay, the instance is gone *)
Die(s) ==
    /\ index' = <<>>
    /\ index_d' = 0
    /\ document_store' = <<>>
    /\ id_to_index' = EmptyDict
    /\ index_to_id' = EmptyDict
    /\ index_file' = s.index_file
    /\ metadata_file' = s.metadata_file
    /\ up' = FALSE
    /\ all_ok' = FALSE

BatchIds(docs) == {docs[i].id : i \in 1..Len(docs)}

WriteFaults == {"write_index_raises", "open_metadata_raises", "json_dump_raises"}

(* what `last` records of a call: its name, the id it was given (delete), the
   value it returned, the kind of fault that struck in it, and whether the
   call before it was a call of the same method *)
FaultKind(fault) ==
    CASE fault = "none" -> "none"
      [] fault \in WriteFaults -> "write"
      [] fault \in Crashes -> "crash"
      [] OTHER -> "raise"

Call(op, ret, fault, id) ==
    [op |-> op, ret |-> ret, id |-> id, fault |-> FaultKind(fault),
     again |-> last.op = op]

NoCall ==
    [op |-> "none", ret |-> FALSE, id |-> NoId, fault |-> "none",
     again |-> FALSE]

Idle == [t \in {} |-> 0]

(* no search has returned yet *)
NoSearch ==
    [query |-> "", top_k |-> 0, filter_dict |-> <<>>, results |-> <<>>]

(* no VectorDatabaseManager has been constructed *)
NoManager == [t \in {} |-> 0]

(* A new FAISSVectorDB on an empty db_path *)
Init ==
    /\ config = DefaultConfig
    /\ index = <<>>
    /\ index_d = config.dimension
    /\ document_store = <<>>
    /\ id_to_index = EmptyDict
    /\ index_to_id = EmptyDict
    /\ index_file = AbsentIndexFile
    /\ metadata_file = AbsentMetadataFile
    /\ up = TRUE
    /\ last = NoCall
    /\ all_ok = TRUE
    /\ faults = 0
    /\ collection = EmptyDict
    /\ threads = Idle
    /\ snapshot = Self
    /\ found = NoSearch
    /\ manager = NoManager

(* the number of faults a call with this fault and this input uses up *)
Cost(fault, malformed) ==
    (IF fault = "none" THEN 0 ELSE 1) + (IF malformed THEN 1 ELSE 0)

(* the call returns (or the process dies in it) with result r *)
Finish(r, op, fault, id, malformed) ==
    /\ r.hit
    /\ faults + Cost(fault, malformed) <= MaxFaults
    /\ faults' = faults + Cost(fault, malformed)
    /\ IF r.crashed
       THEN /\ Die(r.self)
            /\ last' = Call("crash", FALSE, fault, id)
       ELSE /\ Install(r.self)
            /\ up' = TRUE
            /\ all_ok' = (all_ok /\ r.ret)
            /\ last' = Call(op, r.ret, fault, id)

AddDocumentsCall ==
    /\ up
    /\ \E docs \in Batches, fault \in Faults :
          /\ Len(index) + Len(docs) <= MaxVectors
          /\ Finish(AddDocuments(Self, config, docs, fault),
                    "add_documents", fault, NoId, NoId \in BatchIds(docs))
    /\ UNCHANGED <<config, collection, threads, snapshot, found, manager>>

DeleteDocumentCall ==
    /\ up
    /\ \E document_id \in Ids, fault \in Faults :
          Finish(DeleteDocument(Self, config, document_id, fault),
                 "delete_document", fault, document_id, FALSE)
    /\ UNCHANGED <<config, collection, threads, snapshot, found, manager>>

ClearCollectionCall ==
    /\ up
    /\ \E fault \in Faults :
          Finish(ClearCollection(Self, fault),
                 "clear_collection", fault, NoId, FALSE)
    /\ UNCHANGED <<config, collection, threads, snapshot, found, manager>>

(* the process ends and a new FAISSVectorDB is constructed on the same path *)
Restart ==
    /\ Install(InitializeDb(Self))
    /\ up' = TRUE
    /\ all_ok' = (up /\ all_ok)
    /\ last' = Call("restart", TRUE, "none", NoId)
    /\ UNCHANGED <<faults, config, collection, threads, snapshot, found, manager>>

Next ==
    \/ AddDocumentsCall
    \/ DeleteDocumentCall
    \/ ClearCollectionCall
    \/ Restart

Spec == Init /\ [][Next]_vars

-----------------------------------------------------------------------------
(* ChromaVectorDB.  The external engine's collection is a dictionary from id
   to [content, metadata, embedding]; the engine is addressed by id. *)

(* self.collection.add(...): the engine refuses a batch that holds an id
   twice or an id it already has *)
CollectionAddRaises(c, docs) ==
    \/ \E i \in 1..Len(docs) : docs[i].id \in DOMAIN c
    \/ \E i, j \in 1..Len(docs) : i # j /\ docs[i].id = docs[j].id

RECURSIVE CollectionAdd(_, _, _, _)
CollectionAdd(c, cfg, docs, i) ==
    IF i > Len(docs) THEN c
    ELSE CollectionAdd(
            DictPut(c, docs[i].id,
                    [content |-> docs[i].content, metadata |-> docs[i].metadata,
                     embedding |-> Encode(cfg, docs[i].content)]),
            cfg, docs, i + 1)

(* self.collection.delete(ids=[document_id]): an unknown id is a no-op *)
CollectionDelete(c, document_id) == DictDel(c, document_id)

ChromaResult(c, ret, hit) == [collection |-> c, ret |-> ret, hit |-> hit]

(* ChromaVectorDB.add_documents *)
ChromaAddDocuments(c, cfg, docs, fault) ==
    IF NoId \in {docs[i].id : i \in 1..Len(docs)}
    THEN ChromaResult(c, FALSE, fault = "none")
    ELSE IF fault \in {"encode_raises", "engine_raises"}
    THEN ChromaResult(c, FALSE, TRUE)
    ELSE IF CollectionAddRaises(c, docs)
    THEN ChromaResult(c, FALSE, TRUE)
    ELSE ChromaResult(CollectionAdd(c, cfg, docs, 1), TRUE, TRUE)

(* ChromaVectorDB.delete_document *)
ChromaDeleteDocument(c, document_id, fault) ==
    IF fault = "engine_raises"
    THEN ChromaResult(c, FALSE, TRUE)
    ELSE ChromaResult(CollectionDelete(c, document_id), TRUE, fault = "none")

(* ChromaVectorDB.clear_collection: delete_collection, then create_collection *)
ChromaClearCollection(c, fault) ==
    IF fault = "engine_raises"
    THEN ChromaResult(c, FALSE, TRUE)
    ELSE ChromaResult(EmptyDict, TRUE, fault = "none")

(* ChromaVectorDB.get_collection_stats()["total_documents"] *)
ChromaTotalDocuments(c) == Cardinality(DOMAIN c)

(* ChromaVectorDB.get_collection_stats: ret is whether the dictionary
   returned is the statistics ({} when collection.count() raises) *)
ChromaGetCollectionStats(c, fault) ==
    IF fault = "engine_raises"
    THEN ChromaResult(c, FALSE, TRUE)
    ELSE ChromaResult(c, TRUE, fault = "none")

ChromaFaults == {"none", "encode_raises", "engine_raises"}

ChromaBatches ==
    UNION {[1..n -> Documents \cup {Doc("b", "x")}] : n \in 1..MaxVectors}

ChromaFinish(r, op, fault, id, malformed) ==
    /\ r.hit
    /\ faults + Cost(fault, malformed) <= MaxFaults
    /\ faults' = faults + Cost(fault, malformed)
    /\ collection' = r.collection
    /\ last' = Call(op, r.ret, fault, id)
    /\ all_ok' = (all_ok /\ r.ret)
    /\ UNCHANGED <<Memory, Files, config, up, threads, snapshot, found, manager>>

ChromaAddDocumentsCall ==
    \E docs \in ChromaBatches, fault \in ChromaFaults :
        ChromaFinish(ChromaAddDocuments(collection, config, docs, fault),
                     "add_documents", fault, NoId,
                     NoId \in {docs[i].id : i \in 1..Len(docs)})

ChromaDeleteDocumentCall ==
    \E document_id \in Ids, fault \in ChromaFaults :
        ChromaFinish(ChromaDeleteDocument(collection, document_id, fault),
                     "delete_document", fault, document_id, FALSE)

ChromaClearCollectionCall ==
    \E fault \in ChromaFaults :
        ChromaFinish(ChromaClearCollection(collection, fault),
                     "clear_collection", fault, NoId, FALSE)

ChromaGetCollectionStatsCall ==
    \E fault \in ChromaFaults :
        ChromaFinish(ChromaGetCollectionStats(collection, fault),
                     "get_collection_stats", fault, NoId, FALSE)

NextChroma ==
    \/ ChromaGetCollectionStatsCall
    \/ ChromaAddDocumentsCall
    \/ ChromaDeleteDocumentCall
    \/ ChromaClearCollectionCall

(* a ChromaVectorDB on an empty collection *)
SpecChroma == Init /\ [][NextChroma]_vars

-----------------------------------------------------------------------------
(* Calls running in two threads on one FAISSVectorDB.  No method of the class
   takes a lock, so the statements of two calls interleave.  A thread holds
   the call it runs, its position in the method and the method's local
   variables; one step is one statement (or one run of statements that touch
   no shared field), so that every interleaving of the steps is an
   interleaving of the program. *)

Threads == {1, 2}

NewInstance ==
    [config |-> DefaultConfig, index |-> <<>>,
     d |-> DefaultConfig.dimension, document_store |-> <<>>,
     id_to_index |-> EmptyDict, index_to_id |-> EmptyDict,
     index_file |-> AbsentIndexFile, metadata_file |-> AbsentMetadataFile]

(* what the instance holds when the two calls start *)
Seeds == {<<>>, <<Doc("a", "x")>>, <<Doc("a", "x"), Doc("b", "y")>>}

Seeded(docs) ==
    IF docs = <<>> THEN NewInstance
    ELSE AddDocuments(NewInstance, DefaultConfig, docs, "none").self

ThreadCall(op, docs, id, query) ==
    [op |-> op, docs |-> docs, id |-> id, query |-> query]

ThreadCalls ==
    {ThreadCall("add_documents", <<d>>, NoId, "x") :
        d \in {Doc("a", "y"), Doc("b", "y")}}
    \cup {ThreadCall("delete_document", <<>>, i, "x") : i \in Ids}
    \cup {ThreadCall("clear_collection", <<>>, NoId, "x")}
    \cup {ThreadCall("search", <<>>, NoId, q) : q \in Contents}

(* the first statement of each method *)
Entry(op) ==
    CASE op = "add_documents" -> "add_start"
      [] op = "delete_document" -> "delete_start"
      [] op = "clear_collection" -> "clear_start"
      [] OTHER -> "search_start"

Started(c) ==
    [call |-> c, docs |-> c.docs, pc |-> Entry(c.op), start_index |-> 0,
     i |-> 1, hits |-> <<>>, results |-> <<>>, ret |-> FALSE]

Returned(th, ret) == [th EXCEPT !.pc = "done", !.ret = ret]

InitConc ==
    /\ config = DefaultConfig
    /\ \E docs \in Seeds :
          /\ index = Seeded(docs).index
          /\ index_d = Seeded(docs).d
          /\ document_store = Seeded(docs).document_store
          /\ id_to_index = Seeded(docs).id_to_index
          /\ index_to_id = Seeded(docs).index_to_id
          /\ index_file = Seeded(docs).index_file
          /\ metadata_file = Seeded(docs).metadata_file
    /\ up = TRUE
    /\ last = NoCall
    /\ all_ok = TRUE
    /\ faults = 0
    /\ collection = EmptyDict
    /\ \E c1 \in ThreadCalls, c2 \in ThreadCalls :
          /\ c1.op # "search"
          /\ threads = [t \in Threads |-> Started(IF t = 1 THEN c1 ELSE c2)]
    /\ snapshot = Self
    /\ found = NoSearch
    /\ manager = NoManager

(* thread t takes a step that leaves the instance as s and itself as th *)
ThreadStep(t, s, th) ==
    /\ Install(s)
    /\ threads' = [threads EXCEPT ![t] = th]
    /\ UNCHANGED <<config, up, last, all_ok, faults, collection, snapshot, found, manager>>

(* add_documents, lines 299-309: encode, then start_index = index.ntotal *)
AddStart(t) ==
    /\ threads[t].pc = "add_start"
    /\ ThreadStep(t, Self, [threads[t] EXCEPT !.start_index = Len(index),
                                              !.pc = "add_index"])

(* add_documents, line 312 *)
AddIndex(t) ==
    LET th == threads[t]
    IN  /\ th.pc = "add_index"
        /\ IF IndexRejects(Self, config)
           THEN ThreadStep(t, Self,
                           Returned(th, th.call.op = "delete_document"))
           ELSE ThreadStep(t, IndexAdd(Self, config, th.docs),
                           [th EXCEPT !.i = 1, !.pc = "add_loop"])

(* add_documents, lines 315-326: one iteration *)
AddLoop(t) ==
    LET th == threads[t]
    IN  /\ th.pc = "add_loop"
        /\ th.i <= Len(th.docs)
        /\ ThreadStep(t, StoreMetadata(Self, th.docs[th.i],
                                       th.start_index + (th.i - 1)),
                      [th EXCEPT !.i = th.i + 1])

(* add_documents, lines 328-329; _rebuild_index ignores what the inner call
   returns and delete_document returns True after it *)
AddSave(t) ==
    LET th == threads[t]
    IN  /\ th.pc = "add_loop"
        /\ th.i > Len(th.docs)
        /\ ThreadStep(t, SaveIndex(Self, "none"), Returned(th, TRUE))

(* delete_document, lines 381-388 *)
DeleteStart(t) ==
    LET th == threads[t]
        removed == RemoveEntries(Self, th.call.id)
    IN  /\ th.pc = "delete_start"
        /\ IF th.call.id \notin StoreKeys(document_store)
           THEN ThreadStep(t, Self, Returned(th, FALSE))
           ELSE IF removed.raised
           THEN ThreadStep(t, removed.self, Returned(th, FALSE))
           ELSE ThreadStep(t, removed.self, [th EXCEPT !.pc = "rebuild"])

(* _rebuild_index, lines 399-405 *)
RebuildCreate(t) ==
    LET th == threads[t]
    IN  /\ th.pc = "rebuild"
        /\ IF document_store = <<>>
           THEN ThreadStep(t, SaveIndex(CreateIndex(Self), "none"),
                           Returned(th, TRUE))
           ELSE ThreadStep(t, CreateIndex(Self),
                           [th EXCEPT !.pc = "rebuild_collect"])

(* _rebuild_index, lines 408-414 *)
RebuildCollect(t) ==
    LET th == threads[t]
    IN  /\ th.pc = "rebuild_collect"
        /\ ThreadStep(t, Self, [th EXCEPT !.docs = StoredDocuments(Self),
                                          !.pc = "rebuild_clear"])

(* _rebuild_index, lines 417-422 *)
RebuildClear(t) ==
    LET th == threads[t]
    IN  /\ th.pc = "rebuild_clear"
        /\ ThreadStep(t, ClearMappings(Self),
                      IF th.docs = <<>> THEN Returned(th, TRUE)
                      ELSE [th EXCEPT !.pc = "add_start"])

(* clear_collection, lines 437-440 *)
ClearStart(t) ==
    /\ threads[t].pc = "clear_start"
    /\ ThreadStep(t, ClearMemory(Self), [threads[t] EXCEPT !.pc = "clear_save"])

(* clear_collection, lines 441-442 *)
ClearSave(t) ==
    /\ threads[t].pc = "clear_save"
    /\ ThreadStep(t, SaveIndex(Self, "none"), Returned(threads[t], TRUE))

(* search, lines 338-345: encode the query and ask the raw index *)
SearchIndex(t) ==
    LET th == threads[t]
    IN  /\ th.pc = "search_start"
        /\ IF IndexRejects(Self, config)
           THEN ThreadStep(t, Self, Returned(th, TRUE))
           ELSE ThreadStep(t, Self,
                  [th EXCEPT !.hits = IndexSearch(index, config,
                                  Embedding(config, th.call.query), MaxTopK),
                             !.pc = "search_loop"])

(* search, lines 348-373: resolve what the index reported *)
SearchLoop(t) ==
    LET th == threads[t]
    IN  /\ th.pc = "search_loop"
        /\ ThreadStep(t, Self,
              [Returned(th, TRUE) EXCEPT
                  !.results = SearchResults(Self, th.hits, <<>>)])

NextConc ==
    \/ \E t \in Threads : AddStart(t)
    \/ \E t \in Threads : AddIndex(t)
    \/ \E t \in Threads : AddLoop(t)
    \/ \E t \in Threads : AddSave(t)
    \/ \E t \in Threads : DeleteStart(t)
    \/ \E t \in Threads : RebuildCreate(t)
    \/ \E t \in Threads : RebuildCollect(t)
    \/ \E t \in Threads : RebuildClear(t)
    \/ \E t \in Threads : ClearStart(t)
    \/ \E t \in Threads : ClearSave(t)
    \/ \E t \in Threads : SearchIndex(t)
    \/ \E t \in Threads : SearchLoop(t)

(* two calls on one FAISSVectorDB, each in its own thread *)
SpecConc == InitConc /\ [][NextConc]_vars

-----------------------------------------------------------------------------
(* search on FAISSVectorDB, for each index family.  The collection is built
   by add_documents and delete_document calls in which nothing fails; a
   search records its arguments and what it returned in `found`, and any
   other call forgets the last search. *)

MaxDocs == 3        \* vectors in the raw index, and the largest top_k

SearchIds == {"a", "b", "c"}

SearchContents == {"x", "y", "w"}

(* a document dictionary; one without the "metadata" key is stored with {} *)
TaggedDoc(i, c, tag) == [id |-> i, content |-> c, metadata |-> [tag |-> tag]]

UntaggedDoc(i, c) == [id |-> i, content |-> c, metadata |-> <<>>]

SearchDocuments ==
    {TaggedDoc("a", "x", "t1"), TaggedDoc("a", "y", "t2"),
     TaggedDoc("b", "y", "t2"), UntaggedDoc("b", "x"),
     TaggedDoc("c", "w", "t1"), TaggedDoc("c", "w", "t2")}

SearchFilters == {<<>>, [tag |-> "t1"], [tag |-> "t2"]}

Configs(index_types) ==
    {[DefaultConfig EXCEPT !.index_type = it] : it \in index_types}

InitSearch ==
    /\ config \in Configs(IndexTypes)
    /\ index = <<>>
    /\ index_d = config.dimension
    /\ document_store = <<>>
    /\ id_to_index = EmptyDict
    /\ index_to_id = EmptyDict
    /\ index_file = AbsentIndexFile
    /\ metadata_file = AbsentMetadataFile
    /\ up = TRUE
    /\ last = NoCall
    /\ all_ok = TRUE
    /\ faults = 0
    /\ collection = EmptyDict
    /\ threads = Idle
    /\ snapshot = NewInstance
    /\ found = NoSearch
    /\ manager = NoManager

(* a call that is not a search returns; only `found` keeps history here *)
SearchFinish(r) ==
    /\ Install(r.self)
    /\ found' = NoSearch
    /\ UNCHANGED <<config, up, last, all_ok, faults, collection, threads,
                   snapshot, manager>>

SearchAddDocumentsCall ==
    \E doc \in SearchDocuments :
        /\ Len(index) + 1 <= MaxDocs
        /\ SearchFinish(AddDocuments(Self, config, <<doc>>, "none"))

SearchDeleteDocumentCall ==
    \E document_id \in SearchIds :
        SearchFinish(DeleteDocument(Self, config, document_id, "none"))

(* search changes no field of the instance, so the searches that follow a
   change of the collection all start from the same instance: recording the
   first of them reaches every state a run of searches reaches *)
SearchCall ==
    \E query \in SearchContents, top_k \in 1..MaxDocs,
       filter_dict \in SearchFilters :
        /\ found = NoSearch
        /\ found' = [query |-> query, top_k |-> top_k,
                     filter_dict |-> filter_dict,
                     results |-> Search(Self, config, query, top_k,
                                        filter_dict, "none")]
        /\ UNCHANGED <<Memory, Files, config, up, last, all_ok, faults,
                       collection, threads, snapshot, manager>>

NextSearch ==
    \/ SearchAddDocumentsCall
    \/ SearchDeleteDocumentCall
    \/ SearchCall

(* a FAISSVectorDB of any index family, built up and searched *)
SpecSearch == InitSearch /\ [][NextSearch]_vars

-----------------------------------------------------------------------------
(* VectorDatabaseManager.  `manager` holds the three *_AVAILABLE flags the
   module sets when it is imported, whether a Manager has been constructed,
   the class of the backend it holds (self.db), the table the last benchmark
   returned and the two temporary collections of the benchmark
   (./test_db_faiss and the engine's collection test_chroma).  config.db_type
   is the db_type of the one VectorDBConfig object the Manager and its backend
   share.  The FAISS backend's instance and files and the engine's collection
   are the variables of the backends above; while the Manager holds no
   FAISSVectorDB, there is no instance (up is FALSE). *)

Kinds == {"chroma", "faiss"}

(* the db_type strings a caller passes *)
DbTypes == {"chroma", "faiss", "Chroma", "qdrant"}

(* str.lower() *)
Lower(db_type) ==
    CASE db_type = "Chroma" -> "chroma"
      [] db_type = "FAISS" -> "faiss"
      [] OTHER -> db_type

Other(kind) == IF kind = "chroma" THEN "faiss" ELSE "chroma"

(* ChromaVectorDB.__init__ and FAISSVectorDB.__init__ raise ImportError when
   the library or SentenceTransformers is missing *)
BackendRaises(kind, available) == ~available[kind] \/ ~available.st

(* the fallback of _create_database assigns config.db_type *)
CreateDatabaseKeepsType(db_type, available) ==
    IF Lower(db_type) \in Kinds
    THEN LET kind == IF available[Lower(db_type)] THEN Lower(db_type)
                     ELSE Other(Lower(db_type))
         IN  [db_type |-> db_type, kind |-> kind,
              raised |-> BackendRaises(kind, available)]
    ELSE [db_type |-> db_type, kind |-> "none", raised |-> TRUE]

(* _create_database: the db_type it leaves in config, the class it
   constructs, and whether the construction (or the ValueError of an
   unsupported db_type) raised *)
CreateDatabase(db_type, available) ==
    IF Lower(db_type) \in Kinds
    THEN IF available[Lower(db_type)]
         THEN [db_type |-> db_type, kind |-> Lower(db_type),
               raised |-> BackendRaises(Lower(db_type), available)]
         ELSE [db_type |-> Other(Lower(db_type)),
               kind |-> Other(Lower(db_type)),
               raised |-> BackendRaises(Other(Lower(db_type)), available)]
    ELSE [db_type |-> db_type, kind |-> "none", raised |-> TRUE]

(* a FAISSVectorDB constructed on the files at db_path *)
NewFaissKeepsMemory(s) == s

NewFaiss(s) == InitializeDb(s)

(* the files of an instance, with no instance on them *)
NoInstance(s) ==
    [s EXCEPT !.index = <<>>, !.d = 0, !.document_store = <<>>,
              !.id_to_index = EmptyDict, !.index_to_id = EmptyDict]

NoTable == [k \in {} |-> 0]

InitManager ==
    /\ config = DefaultConfig
    /\ index = <<>>
    /\ index_d = 0
    /\ document_store = <<>>
    /\ id_to_index = EmptyDict
    /\ index_to_id = EmptyDict
    /\ index_file = AbsentIndexFile
    /\ metadata_file = AbsentMetadataFile
    /\ up = FALSE
    /\ last = NoCall
    /\ all_ok = TRUE
    /\ faults = 0
    /\ collection = EmptyDict
    /\ threads = Idle
    /\ snapshot = NewInstance
    /\ found = NoSearch
    /\ \E chroma \in BOOLEAN, faiss \in BOOLEAN, st \in BOOLEAN :
          manager = [available |-> [chroma |-> chroma, faiss |-> faiss,
                                    st |-> st],
                     constructed |-> FALSE, db |-> "none",
                     requested |-> "none", table |-> NoTable,
                     temp_faiss |-> NoInstance(NewInstance),
                     temp_chroma |-> EmptyDict]

(* the Manager takes the backend `created` names: a new FAISSVectorDB loads
   the files at db_path, a new ChromaVectorDB gets the engine's collection *)
TakeBackend(created) ==
    /\ IF created.kind = "faiss"
       THEN Install(NewFaiss([Self EXCEPT !.config = config']))
       ELSE Install(NoInstance(Self))
    /\ up' = (created.kind = "faiss")
    /\ UNCHANGED collection

(* VectorDatabaseManager(config) *)
ManagerConstruct ==
    /\ ~manager.constructed
    /\ \E db_type \in DbTypes :
          LET created == CreateDatabase(db_type, manager.available)
          IN  /\ config' = [config EXCEPT !.db_type = created.db_type]
              /\ last' = Call("construct", ~created.raised, "none", NoId)
              /\ IF created.raised
                 THEN /\ manager' = [manager EXCEPT !.requested = db_type]
                      /\ UNCHANGED <<Memory, Files, up, collection>>
                 ELSE /\ manager' = [manager EXCEPT !.constructed = TRUE,
                                                    !.db = created.kind,
                                                    !.requested = db_type]
                      /\ TakeBackend(created)
    /\ UNCHANGED <<all_ok, faults, threads, snapshot, found>>

(* switch_database *)
ManagerSwitchDatabase ==
    /\ manager.constructed
    /\ \E new_db_type \in DbTypes :
          LET created == CreateDatabase(new_db_type, manager.available)
          IN  /\ config' = [config EXCEPT !.db_type = created.db_type]
              /\ last' = Call("switch_database", ~created.raised, "none", NoId)
              /\ IF created.raised
                 THEN /\ manager' = [manager EXCEPT !.requested = new_db_type]
                      /\ UNCHANGED <<Memory, Files, up, collection>>
                 ELSE /\ manager' = [manager EXCEPT !.db = created.kind,
                                                    !.requested = new_db_type]
                      /\ TakeBackend(created)
    /\ UNCHANGED <<all_ok, faults, threads, snapshot, found>>

(* the batches the Manager's callers add, and the inputs of a benchmark: a
   well-formed batch and one whose insertion fails, no query and one query *)
ManagerBatches == {<<Doc("a", "x")>>, <<Doc("b", "y")>>}

BenchmarkBatches == {<<Doc("a", "x")>>, <<Doc(NoId, "x")>>}

BenchmarkQueries == {<<>>, <<"x">>}

(* add_documents, delegated to self.db *)
ManagerAddDocuments ==
    /\ manager.constructed
    /\ \E docs \in ManagerBatches :
          IF manager.db = "faiss"
          THEN /\ Len(index) + Len(docs) <= MaxVectors
               /\ Install(AddDocuments(Self, config, docs, "none").self)
               /\ last' = Call("add_documents",
                               AddDocuments(Self, config, docs, "none").ret,
                               "none", NoId)
               /\ UNCHANGED collection
          ELSE /\ collection' =
                     ChromaAddDocuments(collection, config, docs, "none").collection
               /\ last' = Call("add_documents",
                               ChromaAddDocuments(collection, config, docs,
                                                  "none").ret,
                               "none", NoId)
               /\ UNCHANGED <<Memory, Files>>
    /\ UNCHANGED <<config, up, all_ok, faults, threads, snapshot, found, manager>>

(* clear_collection, delegated to self.db *)
ManagerClearCollection ==
    /\ manager.constructed
    /\ IF manager.db = "faiss"
       THEN /\ Install(ClearCollection(Self, "none").self)
            /\ last' = Call("clear_collection",
                            ClearCollection(Self, "none").ret, "none", NoId)
            /\ UNCHANGED collection
       ELSE /\ collection' = ChromaClearCollection(collection, "none").collection
            /\ last' = Call("clear_collection",
                            ChromaClearCollection(collection, "none").ret,
                            "none", NoId)
            /\ UNCHANGED <<Memory, Files>>
    /\ UNCHANGED <<config, up, all_ok, faults, threads, snapshot, found, manager>>

(* what benchmark_databases records for a backend and how it leaves the
   backend's temporary collection *)
Benchmarked(entry, temp) == [entry |-> entry, temp |-> temp]

TimingEntry(test_documents) ==
    [kind |-> "timing", total_documents |-> Len(test_documents)]

ErrorEntry == [kind |-> "error", total_documents |-> 0]

(* benchmark_databases, lines 501-538 for db_type = "faiss": the test database
   is constructed on ./test_db_faiss; sum(search_times) / len(search_times)
   raises ZeroDivisionError when there is no query, and the except branch
   records the error without clearing *)
BenchmarkFaiss(temp, test_documents, test_queries) ==
    LET test_config == [DefaultConfig EXCEPT !.db_type = "faiss"]
        test_db == InitializeDb([temp EXCEPT !.config = test_config])
        added == AddDocuments(test_db, test_config, test_documents, "none").self
    IN  IF test_queries = <<>>
        THEN Benchmarked(ErrorEntry, NoInstance(added))
        ELSE Benchmarked(TimingEntry(test_documents),
                         NoInstance(ClearCollection(added, "none").self))

(* benchmark_databases, lines 501-538 for db_type = "chroma" *)
BenchmarkChroma(temp, test_documents, test_queries) ==
    LET test_config == [DefaultConfig EXCEPT !.db_type = "chroma"]
        added == ChromaAddDocuments(temp, test_config, test_documents,
                                    "none").collection
    IN  IF test_queries = <<>>
        THEN Benchmarked(ErrorEntry, added)
        ELSE Benchmarked(TimingEntry(test_documents),
                         ChromaClearCollection(added, "none").collection)

(* benchmark_databases: a kind whose library is missing is skipped *)
ManagerBenchmark ==
    /\ manager.constructed
    /\ \E test_documents \in BenchmarkBatches, test_queries \in BenchmarkQueries :
          LET chroma == BenchmarkChroma(manager.temp_chroma, test_documents,
                                        test_queries)
              faiss == BenchmarkFaiss(manager.temp_faiss, test_documents,
                                      test_queries)
              tested == {k \in Kinds : manager.available[k]}
          IN  /\ Len(manager.temp_faiss.index_file.data) + Len(test_documents)
                    <= MaxVectors
              /\ manager' =
                    [manager EXCEPT
                        !.table = [k \in tested |->
                                     IF k = "chroma" THEN chroma.entry
                                     ELSE faiss.entry],
                        !.temp_chroma = IF "chroma" \in tested
                                        THEN chroma.temp ELSE @,
                        !.temp_faiss = IF "faiss" \in tested
                                       THEN faiss.temp ELSE @]
    /\ last' = Call("benchmark_databases", TRUE, "none", NoId)
    /\ UNCHANGED <<Memory, Files, config, up, all_ok, faults, collection,
                   threads, snapshot, found>>

NextManager ==
    \/ ManagerConstruct
    \/ ManagerSwitchDatabase
    \/ ManagerAddDocuments
    \/ ManagerClearCollection
    \/ ManagerBenchmark

(* a VectorDatabaseManager, its backend and its benchmark *)
SpecManager == InitManager /\ [][NextManager]_vars

-----------------------------------------------------------------------------
(* A FAISSVectorDB whose collection outlives the configuration it was created
   under: the caller constructs every instance with a VectorDBConfig of its
   choice, whose dimension need not be the length of the vectors the embedding
   model produces, nor the dimension of the index file found at db_path. *)

Dimensions == {ModelDimension(em) : em \in EmbeddingModels}

DimensionConfigs ==
    {[DefaultConfig EXCEPT !.db_type = "faiss", !.embedding_model = em,
                           !.dimension = dim] :
        em \in EmbeddingModels, dim \in Dimensions}

InitDimension ==
    /\ config \in DimensionConfigs
    /\ index = <<>>
    /\ index_d = config.dimension
    /\ document_store = <<>>
    /\ id_to_index = EmptyDict
    /\ index_to_id = EmptyDict
    /\ index_file = AbsentIndexFile
    /\ metadata_file = AbsentMetadataFile
    /\ up = TRUE
    /\ last = NoCall
    /\ all_ok = TRUE
    /\ faults = 0
    /\ collection = EmptyDict
    /\ threads = Idle
    /\ snapshot = NewInstance
    /\ found = NoSearch
    /\ manager = NoManager

(* add_documents *)
DimensionAddDocumentsCall ==
    /\ \E docs \in ManagerBatches :
          /\ Len(index) + Len(docs) <= MaxVectors
          /\ Install(AddDocuments(Self, config, docs, "none").self)
          /\ last' = Call("add_documents",
                          AddDocuments(Self, config, docs, "none").ret,
                          "none", NoId)
    /\ UNCHANGED <<config, up, all_ok, faults, collection, threads, snapshot,
                   found, manager>>

(* clear_collection *)
DimensionClearCollectionCall ==
    /\ Install(ClearCollection(Self, "none").self)
    /\ last' = Call("clear_collection", ClearCollection(Self, "none").ret,
                    "none", NoId)
    /\ UNCHANGED <<config, up, all_ok, faults, collection, threads, snapshot,
                   found, manager>>

(* FAISSVectorDB(new_config) on the same db_path *)
DimensionReopen ==
    /\ \E new_config \in DimensionConfigs :
          /\ config' = new_config
          /\ Install(InitializeDb([Self EXCEPT !.config = new_config]))
    /\ last' = Call("restart", TRUE, "none", NoId)
    /\ UNCHANGED <<up, all_ok, faults, collection, threads, snapshot, found,
                   manager>>

NextDimension ==
    \/ DimensionAddDocumentsCall
    \/ DimensionClearCollectionCall
    \/ DimensionReopen

SpecDimension == InitDimension /\ [][NextDimension]_vars

-----------------------------------------------------------------------------
(* The operations of a FAISSVectorDB as their caller sees them: each call
   returns a value, and in some calls embedding_model.encode raises.  `last`
   records the call and whether the exception struck in it, `found` what a
   search returned. *)

SurfaceFaults == {"none", "encode_raises"}

InitSurface ==
    /\ config = [DefaultConfig EXCEPT !.db_type = "faiss"]
    /\ index = <<>>
    /\ index_d = config.dimension
    /\ document_store = <<>>
    /\ id_to_index = EmptyDict
    /\ index_to_id = EmptyDict
    /\ index_file = AbsentIndexFile
    /\ metadata_file = AbsentMetadataFile
    /\ up = TRUE
    /\ last = NoCall
    /\ all_ok = TRUE
    /\ faults = 0
    /\ collection = EmptyDict
    /\ threads = Idle
    /\ snapshot = NewInstance
    /\ found = NoSearch
    /\ manager = NoManager

(* a call that is not a search returns with result r *)
SurfaceFinish(r, op, fault, id) ==
    /\ r.hit
    /\ Install(r.self)
    /\ last' = Call(op, r.ret, fault, id)
    /\ found' = NoSearch
    /\ UNCHANGED <<config, up, all_ok, faults, collection, threads, snapshot,
                   manager>>

SurfaceAddDocumentsCall ==
    \E docs \in ManagerBatches, fault \in SurfaceFaults :
        /\ Len(index) + Len(docs) <= MaxVectors
        /\ SurfaceFinish(AddDocuments(Self, config, docs, fault),
                         "add_documents", fault, NoId)

SurfaceDeleteDocumentCall ==
    \E document_id \in Ids, fault \in SurfaceFaults :
        SurfaceFinish(DeleteDocument(Self, config, document_id, fault),
                      "delete_document", fault, document_id)

(* search: the list it returns is all its caller gets *)
SurfaceSearchCall ==
    \E query \in Contents, top_k \in 1..MaxTopK, filter_dict \in Filters,
       fault \in SurfaceFaults :
        /\ found' = [query |-> query, top_k |-> top_k,
                     filter_dict |-> filter_dict,
                     results |-> Search(Self, config, query, top_k,
                                        filter_dict, fault)]
        /\ last' = Call("search", TRUE, fault, NoId)
        /\ Install(Searched(Self, fault))
        /\ UNCHANGED <<config, up, all_ok, faults, collection, threads,
                       snapshot, manager>>

SurfaceGetCollectionStatsCall ==
    SurfaceFinish(GetCollectionStats(Self), "get_collection_stats", "none",
                  NoId)

NextSurface ==
    \/ SurfaceAddDocumentsCall
    \/ SurfaceDeleteDocumentCall
    \/ SurfaceSearchCall
    \/ SurfaceGetCollectionStatsCall

SpecSurface == InitSurface /\ [][NextSurface]_vars

-----------------------------------------------------------------------------
(* One caller drives a FAISSVectorDB and a ChromaVectorDB side by side: both
   start empty and every call is made on both with the same arguments.
   threads.faiss and threads.chroma hold what the call returned on each
   backend. *)

Backends == {"faiss", "chroma"}

InitBoth ==
    /\ config = DefaultConfig
    /\ index = <<>>
    /\ index_d = config.dimension
    /\ document_store = <<>>
    /\ id_to_index = EmptyDict
    /\ index_to_id = EmptyDict
    /\ index_file = AbsentIndexFile
    /\ metadata_file = AbsentMetadataFile
    /\ up = TRUE
    /\ last = NoCall
    /\ all_ok = TRUE
    /\ faults = 0
    /\ collection = EmptyDict
    /\ threads = [b \in Backends |-> FALSE]
    /\ snapshot = NewInstance
    /\ found = NoSearch
    /\ manager = NoManager

(* the call returns on both backends *)
BothFinish(faiss, chroma, op, id) ==
    /\ Install(faiss.self)
    /\ collection' = chroma.collection
    /\ threads' = [b \in Backends |->
                     IF b = "faiss" THEN faiss.ret ELSE chroma.ret]
    /\ last' = Call(op, faiss.ret, "none", id)
    /\ UNCHANGED <<config, up, all_ok, faults, snapshot, found, manager>>

BothAddDocuments ==
    \E docs \in Batches :
        /\ Len(index) + Len(docs) <= MaxVectors
        /\ BothFinish(AddDocuments(Self, config, docs, "none"),
                      ChromaAddDocuments(collection, config, docs, "none"),
                      "add_documents", NoId)

BothDeleteDocument ==
    \E document_id \in Ids :
        BothFinish(DeleteDocument(Self, config, document_id, "none"),
                   ChromaDeleteDocument(collection, document_id, "none"),
                   "delete_document", document_id)

BothClearCollection ==
    BothFinish(ClearCollection(Self, "none"),
               ChromaClearCollection(collection, "none"),
               "clear_collection", NoId)

NextBoth ==
    \/ BothAddDocuments
    \/ BothDeleteDocument
    \/ BothClearCollection

SpecBoth == InitBoth /\ [][NextBoth]_vars

-----------------------------------------------------------------------------
(* The statements of a call, with failures.  The call of thread 1 runs in an
   environment in which one kind of failure is in force for the whole call
   (the embedding model raises, or a file cannot be written): the statement
   it strikes raises every time it is run.  A thread record carries that
   failure in the field `fault`.  Every thread that has not returned is
   scheduled again and again. *)

StepFaults == {"none", "encode_raises"} \cup WriteFaults

(* thread record th of a call during which `fault` is in force *)
WithFault(th, fault) ==
    [f \in DOMAIN th \cup {"fault"} |-> IF f = "fault" THEN fault ELSE th[f]]

InitSteps ==
    /\ config = DefaultConfig
    /\ \E docs \in Seeds :
          /\ index = Seeded(docs).index
          /\ index_d = Seeded(docs).d
          /\ document_store = Seeded(docs).document_store
          /\ id_to_index = Seeded(docs).id_to_index
          /\ index_to_id = Seeded(docs).index_to_id
          /\ index_file = Seeded(docs).index_file
          /\ metadata_file = Seeded(docs).metadata_file
    /\ up = TRUE
    /\ last = NoCall
    /\ all_ok = TRUE
    /\ faults = 0
    /\ collection = EmptyDict
    /\ \E c1 \in ThreadCalls, c2 \in ThreadCalls, fault \in StepFaults :
          threads = [t \in Threads |->
                       IF t = 1 THEN WithFault(Started(c1), fault)
                       ELSE WithFault(Started(c2), "none")]
    /\ snapshot = Self
    /\ found = NoSearch
    /\ manager = NoManager

(* thread t is at self.embedding_model.encode (lines 302 and 338) *)
AtEncode(t) == threads[t].pc \in {"add_start", "search_start"}

(* thread t is at a call of _save_index (lines 328, 401 and 441) *)
AtSave(t) ==
    \/ threads[t].pc = "add_loop" /\ threads[t].i > Len(threads[t].docs)
    \/ threads[t].pc = "clear_save"
    \/ threads[t].pc = "rebuild" /\ document_store = <<>>

(* the failure in force strikes the statement thread t is at *)
Strikes(t) ==
    \/ threads[t].fault = "encode_raises" /\ AtEncode(t)
    \/ threads[t].fault \in WriteFaults /\ AtSave(t)

(* the statement was retried instead *)
AfterFailureRetries(th, ret) == [th EXCEPT !.ret = ret]

(* where a call goes on after a statement of it raised: the except branch of
   add_documents or search returns (lines 330-332, 374-376) and
   _rebuild_index and delete_document go on to their return; _save_index logs
   and returns (lines 293-294) and its caller returns True *)
AfterFailure(th, ret) == Returned(th, ret)

(* the statement thread t is at raises *)
FailStep(t) ==
    LET th == threads[t]
    IN  /\ Strikes(t)
        /\ IF th.fault = "encode_raises"
           THEN ThreadStep(t, Self,
                           AfterFailure(th, th.call.op # "add_documents"))
           ELSE ThreadStep(t, SaveIndex(IF th.pc = "rebuild"
                                        THEN CreateIndex(Self) ELSE Self,
                                        th.fault),
                           AfterFailure(th, TRUE))

(* the statement thread t is at runs to its end *)
OkStep(t) ==
    /\ ~Strikes(t)
    /\ \/ AddStart(t)
       \/ AddIndex(t)
       \/ AddLoop(t)
       \/ AddSave(t)
       \/ DeleteStart(t)
       \/ RebuildCreate(t)
       \/ RebuildCollect(t)
       \/ RebuildClear(t)
       \/ ClearStart(t)
       \/ ClearSave(t)
       \/ SearchIndex(t)
       \/ SearchLoop(t)

NextSteps ==
    \/ \E t \in Threads : OkStep(t)
    \/ \E t \in Threads : FailStep(t)

SpecSteps == InitSteps /\ [][NextSteps]_vars

(* the scheduler runs every thread that can take a step *)
FairSteps ==
    SpecSteps /\ \A t \in Threads : WF_vars(OkStep(t) \/ FailStep(t))

-----------------------------------------------------------------------------
(* Properties of FAISSVectorDB, checked under Spec *)

MutatingOps == {"add_documents", "delete_document", "clear_collection"}

(* id_to_index and index_to_id are inverses of each other *)
Inverses(ids, idxs) ==
    /\ \A i \in DOMAIN ids :
          Str(ids[i]) \in DOMAIN idxs /\ idxs[Str(ids[i])] = i
    /\ \A k \in DOMAIN idxs :
          idxs[k] \in DOMAIN ids /\ Str(ids[idxs[k]]) = k

(* the ids some search of instance s returns, over every query, top_k and filter *)
FoundIds(s, cfg) ==
    UNION {{results[i].id : i \in 1..Len(results)} :
           results \in {Search(s, cfg, q, k, f, "none") :
                           q \in Contents, k \in 1..MaxTopK, f \in Filters}}

(* C1: after any sequence of add_documents and delete_document calls,
   id_to_index and index_to_id are exact inverses of each other and each has
   as many entries as document_store has documents. *)
C1_IdBijection ==
    up => /\ Inverses(id_to_index, index_to_id)
          /\ Cardinality(DOMAIN id_to_index) = Len(document_store)
          /\ Cardinality(DOMAIN index_to_id) = Len(document_store)

(* C2: add_documents is atomic per call: a call that returns False leaves the
   raw index, document_store and both mappings as they were, and a call that
   returns True leaves every vector it appended with a mapping entry that
   names a stored document. *)
C2_AddAtomic ==
    [][last'.op = "add_documents" =>
          IF last'.ret
          THEN \A p \in Len(index)..(Len(index') - 1) :
                  /\ Str(p) \in DOMAIN index_to_id'
                  /\ index_to_id'[Str(p)] \in StoreKeys(document_store')
                  /\ index_to_id'[Str(p)] \in DOMAIN id_to_index'
          ELSE Memory' = Memory]_vars

(* the position the metadata file records for id refers to a vector of the
   index file that is the embedding of the content recorded for id *)
RecordedPositionValid(id, p) ==
    /\ index_file.kind = "ok"
    /\ p >= 0 /\ p < Len(index_file.data)
    /\ id \in StoreKeys(metadata_file.data.documents)
    /\ index_file.data[p + 1] =
         Embedding(config, StoreGet(metadata_file.data.documents, id).content)

(* C3: whenever the metadata file is present and valid, every (id, position)
   pair it records (in id_to_index and in the documents' faiss_index) refers
   to a vector at that position of the index file on disk that is the
   embedding of that id's content; this holds at every point, also where a
   call was cut between the two writes of _save_index. *)
C3_MetadataImpliesIndex ==
    metadata_file.kind = "ok" =>
        /\ \A id \in DOMAIN metadata_file.data.id_to_index :
              RecordedPositionValid(id, metadata_file.data.id_to_index[id])
        /\ \A i \in 1..Len(metadata_file.data.documents) :
              RecordedPositionValid(metadata_file.data.documents[i].id,
                                    metadata_file.data.documents[i].faiss_index)

(* C4: delete_document(id) for a stored id returns True, total_documents is
   then exactly one less, and no later search returns that id until it is
   added again: an id that no search returns stays so through every call
   that is not an add_documents (or the construction of a new instance). *)
C4_DeleteStored ==
    /\ [][(last'.op = "delete_document"
            /\ last'.id \in StoreKeys(document_store)) =>
              /\ last'.ret
              /\ Len(document_store') = Len(document_store) - 1
              /\ last'.id \notin FoundIds(Self, config)']_vars
    /\ [][last'.op \in {"delete_document", "clear_collection"} =>
              FoundIds(Self, config)' \subseteq FoundIds(Self, config)]_vars

(* C5: delete_document(id) for an id that is not stored returns False and
   leaves the raw index, document_store, both mappings and both files
   unchanged. *)
C5_DeleteUnknown ==
    [][(last'.op = "delete_document"
        /\ last'.id \notin StoreKeys(document_store)) =>
          (~last'.ret /\ Memory' = Memory /\ Files' = Files)]_vars

(* a delete_document of an unknown id has just returned on a collection that
   holds a document and whose files are written *)
C5_Witness ==
    /\ last.op = "delete_document"
    /\ ~last.ret
    /\ last.id \notin StoreKeys(document_store)
    /\ document_store # <<>>
    /\ metadata_file.kind = "ok"

(* C7: after calls that all returned success, constructing a new
   FAISSVectorDB on the same path yields the same document_store, mappings
   and raw index (hence the same total_documents and search results). *)
C7_RestartRoundTrip ==
    [][(last'.op = "restart" /\ up /\ all_ok) => Memory' = Memory]_vars

(* C8: if writing the index file or the metadata file fails during
   add_documents, delete_document or clear_collection, the call returns
   False. *)
C8_WriteFailureReported ==
    [][(last'.op \in MutatingOps /\ last'.fault = "write") => ~last'.ret]_vars

-----------------------------------------------------------------------------
(* Properties of ChromaVectorDB, checked under SpecChroma *)

(* C6: ChromaVectorDB.delete_document(id) returns whether the id existed in
   the collection: True for a stored id, False for an unknown one (the
   engine's delete of an unknown id raising nothing). *)
C6_ChromaDeleteReturnsExisted ==
    [][(last'.op = "delete_document" /\ last'.fault = "none") =>
          (last'.ret <=> last'.id \in DOMAIN collection)]_vars

-----------------------------------------------------------------------------
(* Properties of concurrent calls, checked under SpecConc *)

(* what callers can observe of the instance in memory; a dictionary compares
   without its insertion order *)
Observable(s) ==
    <<s.index, {s.document_store[i] : i \in 1..Len(s.document_store)},
      s.id_to_index, s.index_to_id>>

(* the instance after call c has run alone on s *)
Apply(s, c) ==
    CASE c.op = "add_documents" -> AddDocuments(s, config, c.docs, "none").self
      [] c.op = "delete_document" ->
            DeleteDocument(s, config, c.id, "none").self
      [] c.op = "clear_collection" -> ClearCollection(s, "none").self
      [] OTHER -> s

BothReturned ==
    /\ DOMAIN threads = Threads
    /\ \A t \in Threads : threads[t].pc = "done"

(* C9: two mutating calls (add_documents, delete_document, clear_collection)
   running concurrently leave the instance as running them one after the
   other in some order would, and two concurrent add_documents calls never
   give the same position to two different documents. *)
C9_MutatingCallsSerialized ==
    (/\ BothReturned
     /\ \A t \in Threads : threads[t].call.op \in MutatingOps)
    => /\ Observable(Self) \in
            {Observable(Apply(Apply(snapshot, threads[1].call), threads[2].call)),
             Observable(Apply(Apply(snapshot, threads[2].call), threads[1].call))}
       /\ (\A t \in Threads : threads[t].call.op = "add_documents")
            => \A i, j \in DOMAIN id_to_index :
                   id_to_index[i] = id_to_index[j] => i = j

(* C10: a search running while delete_document rebuilds the index returns
   what it would return on the instance before the delete or on the instance
   after it, never something taken from the partly rebuilt index. *)
C10_SearchSeesNoRebuild ==
    (/\ BothReturned
     /\ threads[1].call.op = "delete_document"
     /\ threads[2].call.op = "search")
    => threads[2].results \in
          {Search(snapshot, config, threads[2].call.query, MaxTopK, <<>>, "none"),
           Search(Apply(snapshot, threads[1].call), config,
                  threads[2].call.query, MaxTopK, <<>>, "none")}

-----------------------------------------------------------------------------
(* Properties of search, checked under SpecSearch *)

(* every stored document has one vector in the raw index and the mappings
   lead to it: the collection was built by adding each document once *)
EachAddedOnce ==
    /\ Len(index) = Len(document_store)
    /\ Inverses(id_to_index, index_to_id)

(* the vector the raw index holds for a stored document *)
VectorOf(id) == index[StoreGet(document_store, id).faiss_index + 1]

QueryVector == Embedding(config, found.query)

(* document p is a nearer match of the last query than document q under the
   metric of the index: a larger inner product, a smaller distance *)
Nearer(p, q) ==
    IF config.index_type = "IndexFlatIP"
    THEN Dot(VectorOf(p), QueryVector) > Dot(VectorOf(q), QueryVector)
    ELSE SquaredDistance(VectorOf(p), QueryVector)
            < SquaredDistance(VectorOf(q), QueryVector)

(* the results are in the order of their scores, the best first as the index
   family counts it *)
OrderedByScore(results) ==
    \A i, j \in 1..Len(results) :
        i < j => IF config.index_type = "IndexFlatIP"
                 THEN results[i].score >= results[j].score
                 ELSE results[i].score <= results[j].score

(* documents a (tag t1), b (tag t2) and c (tag t1), each added once, searched
   with the filter tag = t1 and top_k = 3 *)
ThreeTagged ==
    /\ found # NoSearch
    /\ EachAddedOnce
    /\ StoreKeys(document_store) = {"a", "b", "c"}
    /\ StoreGet(document_store, "a").metadata = [tag |-> "t1"]
    /\ StoreGet(document_store, "b").metadata = [tag |-> "t2"]
    /\ StoreGet(document_store, "c").metadata = [tag |-> "t1"]
    /\ found.filter_dict = [tag |-> "t1"]
    /\ found.top_k = 3

(* C11: a search with a filter returns only documents whose stored metadata
   has, for every key of the filter, the filter's value; with a (tag t1),
   b (tag t2), c (tag t1) stored and the filter tag = t1, search(top_k = 3)
   returns exactly a and c, in the order of their scores. *)
C11_FilterSemantics ==
    found # NoSearch =>
       /\ \A i \in 1..Len(found.results) :
             LET metadata ==
                     StoreGet(document_store, found.results[i].id).metadata
             IN  \A k \in DOMAIN found.filter_dict :
                     k \in DOMAIN metadata /\ metadata[k] = found.filter_dict[k]
       /\ ThreeTagged =>
             /\ Len(found.results) = 2
             /\ {found.results[i].id : i \in 1..2} = {"a", "c"}
             /\ OrderedByScore(found.results)

C11_Witness ==
    /\ ThreeTagged
    /\ Len(found.results) = 2
    /\ found.results[1].score # found.results[2].score

(* the stored documents that satisfy the filter of the last search, the
   nearest match first *)
MatchingRanked ==
    SearchResults(Self,
                  IndexSearch(index, config, QueryVector, Len(index)),
                  found.filter_dict)

(* C12: documents that fail the filter do not count toward top_k: the search
   returns the min(top_k, m) best of the m stored documents that satisfy the
   filter, also when documents that fail it are nearer matches. *)
C12_FilteredOutNotCounted ==
    (found # NoSearch /\ EachAddedOnce) =>
        found.results =
            SubSeq(MatchingRanked, 1,
                   IF found.top_k < Len(MatchingRanked)
                   THEN found.top_k ELSE Len(MatchingRanked))

(* C13: for every index family the results are in descending order of score
   and the nearer of two returned documents has the strictly higher score and
   comes first. *)
C13_HigherScoreIsCloser ==
    (found # NoSearch /\ EachAddedOnce) =>
        \A i, j \in 1..Len(found.results) :
            /\ i < j => found.results[i].score >= found.results[j].score
            /\ Nearer(found.results[i].id, found.results[j].id) =>
                  /\ found.results[i].score > found.results[j].score
                  /\ i < j

(* C14: documents with distinct ids are added to an empty collection; a
   search without filter whose query is the content of one of them, d, returns
   d and no result has a higher score than d, for every index family. *)
C14_RoundTrip ==
    (found # NoSearch /\ EachAddedOnce /\ found.filter_dict = <<>>) =>
        \A n \in 1..Len(document_store) :
            LET d == document_store[n]
                same == {m \in 1..Len(document_store) :
                            document_store[m].content = d.content}
            IN  (d.content = found.query /\ same = {n}) =>
                   \E i \in 1..Len(found.results) :
                      /\ found.results[i].id = d.id
                      /\ \A j \in 1..Len(found.results) :
                            found.results[j].score <= found.results[i].score

-----------------------------------------------------------------------------
(* Properties of the Manager *)

(* the two files hold an empty collection *)
FilesEmpty(index_f, metadata_f) ==
    /\ index_f.kind = "ok"
    /\ index_f.data = <<>>
    /\ metadata_f.kind = "ok"
    /\ metadata_f.data = EmptyMetadata

(* C15: clear_collection is idempotent on both backends: every call, the
   second of two in a row included, returns True and leaves total_documents
   at 0; on FAISSVectorDB the raw index, document_store and both mappings are
   empty and the two files describe the empty collection *)
C15_ClearIdempotent ==
    last.op = "clear_collection" =>
        /\ last.ret
        /\ IF manager.db = "faiss"
           THEN /\ TotalDocuments(Self) = 0
                /\ index = <<>>
                /\ document_store = <<>>
                /\ id_to_index = EmptyDict
                /\ index_to_id = EmptyDict
                /\ FilesEmpty(index_file, metadata_file)
           ELSE ChromaTotalDocuments(collection) = 0

(* the second of two clear_collection calls in a row has returned on the
   FAISS backend *)
C15_Witness ==
    /\ last.op = "clear_collection"
    /\ last.again
    /\ last.ret
    /\ manager.db = "faiss"
    /\ up

(* C16: after a Manager is constructed, config.db_type names the kind of the
   backend it holds; when the library of the requested kind is missing and
   the other kind's is present, the backend and config.db_type are the other
   kind *)
C16_ConfigNamesBackend ==
    (last.op = "construct" /\ last.ret) =>
        LET requested == Lower(manager.requested)
        IN  /\ manager.constructed
            /\ requested \in Kinds
            /\ Lower(config.db_type) = manager.db
            /\ up = (manager.db = "faiss")
            /\ IF manager.available[requested]
               THEN manager.db = requested
               ELSE /\ manager.db = Other(requested)
                    /\ config.db_type = Other(requested)

(* a Manager asked for chroma without the chromadb library holds a
   FAISSVectorDB *)
C16_Witness ==
    /\ last.op = "construct"
    /\ last.ret
    /\ manager.requested = "chroma"
    /\ ~manager.available.chroma
    /\ manager.db = "faiss"
    /\ config.db_type = "faiss"
    /\ up

(* a step in which switch_database returned True *)
Switched == last'.op = "switch_database" /\ last'.ret

(* a switch moves no document: the files and the engine's collection are as
   before, and a new FAISSVectorDB holds what the files held *)
NothingMigrated ==
    /\ index_file' = index_file
    /\ metadata_file' = metadata_file
    /\ collection' = collection
    /\ manager'.db = "faiss" =>
          /\ up'
          /\ index' = index_file.data
          /\ document_store' = metadata_file.data.documents
          /\ id_to_index' = metadata_file.data.id_to_index
          /\ index_to_id' = metadata_file.data.index_to_id
    /\ manager'.db = "chroma" => ~up'

(* C17 as stated: a switch that returns True leaves the Manager with a new
   backend of the kind asked for and migrates nothing *)
C17_SwitchToNewKind ==
    [][Switched =>
          /\ manager'.db = Lower(manager'.requested)
          /\ NothingMigrated]_vars

(* C17 amended: a switch that returns True leaves the Manager with a new
   backend of the kind asked for, or of the other kind when the library of the
   kind asked for is missing, config.db_type names that kind, and nothing is
   migrated *)
C17_SwitchMigratesNothing ==
    [][Switched =>
          LET requested == Lower(manager'.requested)
          IN  /\ requested \in Kinds
              /\ manager'.db = IF manager.available[requested]
                               THEN requested ELSE Other(requested)
              /\ Lower(config'.db_type) = manager'.db
              /\ NothingMigrated]_vars

(* the Manager has switched from Chroma to FAISS while the engine's
   collection and the FAISS files hold different documents *)
C17_Witness ==
    /\ last.op = "switch_database"
    /\ last.ret
    /\ manager.db = "faiss"
    /\ DOMAIN collection = {"a"}
    /\ StoreKeys(document_store) = {"b"}
    /\ StoreKeys(metadata_file.data.documents) = {"b"}

(* C18: the table of a benchmark has no entry for a kind whose library or
   embedding provider is missing and a timing entry for every other kind *)
C18_BenchmarkTable ==
    last.op = "benchmark_databases" =>
        /\ DOMAIN manager.table =
              {k \in Kinds : ~BackendRaises(k, manager.available)}
        /\ \A k \in DOMAIN manager.table : manager.table[k].kind = "timing"

(* C19: when a benchmark has returned, its temporary collections are empty *)
C19_BenchmarkTearsDown ==
    last.op = "benchmark_databases" =>
        /\ manager.temp_chroma = EmptyDict
        /\ manager.temp_faiss.index_file.data = <<>>
        /\ manager.temp_faiss.metadata_file.data = EmptyMetadata

-----------------------------------------------------------------------------
(* Properties of the dimension check *)

(* C20: an add_documents call whose embeddings do not have the configured
   dimension returns False and leaves the raw index, document_store, both
   mappings and both files as they were *)
C20_DimensionMismatchRejected ==
    [][(last'.op = "add_documents"
        /\ ModelDimension(config.embedding_model) # config.dimension) =>
          /\ ~last'.ret
          /\ UNCHANGED <<Memory, Files>>]_vars

-----------------------------------------------------------------------------
(* Properties of the operation surface *)

(* what search returns when it runs to the end and no document matches *)
NoMatch(query, top_k, filter_dict) ==
    Search(ClearMemory(Self), config, query, top_k, filter_dict, "none")

(* C21: every call returns a value that tells success from failure: a
   mutating call in which the embedding raised returns False, and a search in
   which it raised returns something else than a search that ran to the end
   and matched nothing *)
C21_FailureDistinguishable ==
    /\ (last.op \in MutatingOps /\ last.fault = "raise") => ~last.ret
    /\ (last.op = "search" /\ last.fault = "raise") =>
          found.results # NoMatch(found.query, found.top_k, found.filter_dict)

-----------------------------------------------------------------------------
(* Properties of stored documents and their positions *)

(* the entry document_store holds for a stored id is as it was *)
EntryKept(id) ==
    /\ id \in StoreKeys(document_store')
    /\ StoreGet(document_store', id) = StoreGet(document_store, id)

(* C22: add_documents changes the content, the metadata and the position of
   no document that was stored before the call *)
C22_StoredImmutable ==
    [][last'.op = "add_documents" =>
          \A id \in StoreKeys(document_store) : EntryKept(id)]_vars

(* the position recorded for a stored id, in document_store and in
   id_to_index, is as it was *)
PositionKept(id) ==
    /\ id \in StoreKeys(document_store')
    /\ StoreGet(document_store', id).faiss_index =
          StoreGet(document_store, id).faiss_index
    /\ id \in DOMAIN id_to_index => /\ id \in DOMAIN id_to_index'
                                    /\ id_to_index'[id] = id_to_index[id]

(* C27: add_documents changes the position of no document stored before the
   call, and no two stored documents have the same position *)
C27_PositionStable ==
    /\ [][last'.op = "add_documents" =>
             \A id \in StoreKeys(document_store) : PositionKept(id)]_vars
    /\ [](up => \A i, j \in 1..Len(document_store) :
                   i # j => document_store[i].faiss_index #
                            document_store[j].faiss_index)

-----------------------------------------------------------------------------
(* Properties of the two backends side by side *)

(* C23: every call returns the same boolean on both backends and leaves both
   with the same total_documents *)
C23_BackendsEquivalent ==
    /\ last.op \in MutatingOps => threads.faiss = threads.chroma
    /\ TotalDocuments(Self) = ChromaTotalDocuments(collection)

-----------------------------------------------------------------------------
(* Properties of the statements of a call *)

(* the statements of add_documents *)
AddPcs == {"add_start", "add_index", "add_loop"}

(* C28: every call returns, also when the embedding or a write fails in it,
   and no statement of add_documents leads back into _rebuild_index *)
C28_EveryCallReturns ==
    /\ \A t \in Threads : <>(threads[t].pc = "done")
    /\ [][\A t \in Threads :
             threads[t].pc \in AddPcs =>
                threads'[t].pc \in AddPcs \cup {"done"}]_vars

(* a delete_document whose rebuild could not write the index file has
   returned *)
C28_Witness ==
    /\ threads[1].pc = "done"
    /\ threads[1].call.op = "delete_document"
    /\ threads[1].fault = "write_index_raises"
    /\ threads[1].ret
    /\ document_store # <<>>

-----------------------------------------------------------------------------
(* Properties of delete_document and of the save *)

(* C24: after a delete_document that returned True with documents left, the
   raw index holds one vector per document and the documents have the
   positions 0, 1, ... in the order of document_store *)
C24_RebuildInStoredOrder ==
    (up /\ last.op = "delete_document" /\ last.ret /\ document_store # <<>>) =>
        /\ Len(index) = Len(document_store)
        /\ \A i \in 1..Len(document_store) :
              /\ document_store[i].faiss_index = i - 1
              /\ document_store[i].id \in DOMAIN id_to_index
              /\ id_to_index[document_store[i].id] = i - 1
              /\ Str(i - 1) \in DOMAIN index_to_id
              /\ index_to_id[Str(i - 1)] = document_store[i].id

(* C25: after a delete_document that returned True and left no document,
   the raw index, document_store and both mappings are empty and both files
   hold the empty collection *)
C25_DeleteLastLeavesEmpty ==
    (up /\ last.op = "delete_document" /\ last.ret /\ document_store = <<>>) =>
        /\ index = <<>>
        /\ id_to_index = EmptyDict
        /\ index_to_id = EmptyDict
        /\ FilesEmpty(index_file, metadata_file)

(* C26: a process that dies in a call leaves the metadata file as it was or
   completely rewritten, never empty or partial *)
C26_MetadataReplacedAtomically ==
    [][last'.op = "crash" =>
          \/ metadata_file' = metadata_file
          \/ metadata_file'.kind = "ok"]_vars

(* C29: a switch_database that returns False leaves the backend, its
   collection and files as they were, and config.db_type names the kind of
   the backend the Manager holds *)
C29_FailedSwitchChangesNothing ==
    [][(last'.op = "switch_database" /\ ~last'.ret) =>
          /\ manager'.db = manager.db
          /\ up' = up
          /\ Memory' = Memory
          /\ Files' = Files
          /\ collection' = collection
          /\ Lower(config'.db_type) = manager'.db]_vars

(* C30: a delete_document that returned True has rebuilt and saved: every
   stored document has its entries in both mappings and a vector at its
   position, and the files hold the instance; a delete_document in which the
   embedding or a write failed returns False *)
C30_DeleteReportsRebuild ==
    (up /\ last.op = "delete_document") =>
        /\ last.ret =>
              /\ \A i \in 1..Len(document_store) :
                    LET e == document_store[i]
                    IN  /\ e.id \in DOMAIN id_to_index
                        /\ id_to_index[e.id] = e.faiss_index
                        /\ Str(e.faiss_index) \in DOMAIN index_to_id
                        /\ index_to_id[Str(e.faiss_index)] = e.id
                        /\ e.faiss_index < Len(index)
              /\ index_file = WriteIndex(Self)
              /\ metadata_file = JsonDump(Self)
        /\ last.fault \in {"raise", "write"} => ~last.ret


-----------------------------------------------------------------------------
(* C31: a search returns at most top_k results, each one the id of a
   document that is stored now, with the content and the metadata stored
   for it, and no id occurs twice in one result sequence, whatever calls
   built the collection (a second add of a stored id among them). *)
C31_SearchReturnsStored ==
    found # NoSearch =>
        /\ Len(found.results) <= found.top_k
        /\ \A i \in 1..Len(found.results) :
              /\ found.results[i].id \in StoreKeys(document_store)
              /\ found.results[i].content =
                     StoreGet(document_store, found.results[i].id).content
              /\ found.results[i].metadata =
                     StoreGet(document_store, found.results[i].id).metadata
        /\ \A i, j \in 1..Len(found.results) :
              i # j => found.results[i].id # found.results[j].id


-----------------------------------------------------------------------------
(* the calls that only read the collection *)
ReadOps == {"search", "get_collection_stats"}

(* C32: search and get_collection_stats are read-only: neither changes the
   raw index, document_store, id_to_index, index_to_id or either file on
   disk, whether the call runs to the end or fails. *)
C32_ReadsChangeNothing ==
    [][last'.op \in ReadOps => UNCHANGED <<Memory, Files>>]_vars

(* a search failed on a collection that holds a document, on disk as well *)
C32_Witness ==
    /\ last.op = "search"
    /\ last.fault = "raise"
    /\ document_store # <<>>
    /\ Len(index) > 0
    /\ index_file.kind = "ok"
    /\ metadata_file.kind = "ok"


-----------------------------------------------------------------------------
(* the collection a benchmark's FAISSVectorDB finds on ./test_db_faiss *)
TestDbFaiss ==
    InitializeDb([manager.temp_faiss EXCEPT
                     !.config = [DefaultConfig EXCEPT !.db_type = "faiss"]])

(* C33: a benchmark is isolated from the Manager's state: it changes neither
   the backend the Manager holds, nor the configuration, nor the documents of
   that backend's collection, and the temporary collection of every kind it
   tests is empty when the benchmark starts, whatever benchmarks ran
   before. *)
C33_BenchmarkIsolated ==
    [][last'.op = "benchmark_databases" =>
          /\ UNCHANGED <<Memory, Files, config, collection, up>>
          /\ manager'.db = manager.db
          /\ manager.available.chroma => manager.temp_chroma = EmptyDict
          /\ manager.available.faiss =>
                /\ TestDbFaiss.index = <<>>
                /\ TestDbFaiss.document_store = <<>>]_vars

=============================================================================
